---- MODULE Spec2Model ----
(***************************************************************************)
(* homer: the control core of a networked status appliance.                *)
(*   buttons.rs  - the Button Decoder (button_loop, reading_to_button)     *)
(*   util.rs     - CmpValue, HAAction, HAConnect, traverse                 *)
(*   main.rs     - the Orchestrator loop, fetch_config, render_states      *)
(*   wifi.rs     - the Session Manager (handle_websocket, socket_to_me)    *)
(*                                                                         *)
(* Rust Strings are modelled as sequences of one-character strings, so     *)
(* that parsing and formatting are computed character by character.        *)
(* Option<T> is the record [some |-> FALSE] or [some |-> TRUE, v |-> x].   *)
(***************************************************************************)
EXTENDS Integers, Sequences, FiniteSets, TLC

VARIABLES
    \* ---- Button Decoder thread (buttons.rs) ----
    bpc,            \* position of button_loop: "start" (line 32) or "loop" (line 34)
    cur,            \* `cur`, Option<u8>
    last,           \* `last`, the ButtonState: [0..2 -> BOOLEAN]
    button_ch,      \* the bounded(5) button-event channel, main.rs:103
    reading,        \* the raw reading of the latest poll (-1 before the first)
    samples,        \* history: what each poll of the loop decoded to
    sent,           \* history: <<button, index of the poll that sent it>>
    \* ---- pure-function harness (util.rs, main.rs) ----
    evalIn,         \* the arguments of the latest evaluation
    evalOut,        \* its result
    \* ---- Orchestrator thread (main.rs) ----
    opc,            \* position of the main loop: "start" (line 183) or "select" (line 227)
    has_wifi,       \* HAS_WIFI
    has_time,       \* HAS_TIME
    wall_clock,     \* what Local::now() reads: <<hour, minute>>
    last_time,      \* `last_time`
    config_file,    \* what fetch_config() will yield (the SPIFFS file content)
    remote,         \* the remote service's value of each entity it knows
    first_sample,   \* `first_sample`
    ha_config,      \* `ha_config`, the binding table
    states,         \* `states`, the State Store: a function on its key set
    last_state,     \* `last_state`, the Render Cache
    haaction_id,    \* HAACTION_ID
    drawn,          \* the draw instructions the arm of the latest step sent
    top_drawn,      \* those lines 184-224 sent after it
    screen,         \* per screen position, the text of the latest draw instruction
    step,           \* facts about the latest Orchestrator step
    dispatched,     \* history: the request ids in the order as_json produced them
    \* ---- Session Manager thread and the socket callback (wifi.rs) ----
    spc,            \* position of handle_websocket: "wait" (line 54) or "loop"
    socket_client,  \* `socket_client`: 0 is None, n > 0 the n-th client object
    socket_q,       \* the mpsc channel socket_tx/socket_rx, main.rs:107
    ha_ch,          \* the bounded(60) decoded-event channel, main.rs:105
    live,           \* the client objects that exist (created and not yet dropped)
    opened,         \* how many client objects were created so far
    sess,           \* per client object: what happened on it (history)
    wire,           \* history: <<client, payload>> of every successful transmit
    received,       \* history: every event the socket reported to socket_to_me
    forwarded,      \* history: every value sent on ha_tx
    \* ---- the time-sync loop of create_wifi (wifi.rs:241-273) ----
    sntp_pc,        \* position of the loop: "sleep" (line 245) or "poll" (line 246)
    sntp_reset_cnt, \* `sntp_reset_cnt`
    not_sync,       \* `not_sync`
    restarted       \* esp_idf_hal::reset::restart() was called

btnVars  == <<bpc, cur, last, button_ch, reading, samples, sent>>
evalVars == <<evalIn, evalOut>>
orchVars == <<opc, has_wifi, has_time, wall_clock, last_time, config_file,
              remote, first_sample, ha_config, states, last_state,
              haaction_id, drawn, top_drawn, screen, step, dispatched>>
sessVars == <<spc, socket_client, socket_q, ha_ch, live, opened, sess, wire,
              received, forwarded>>
sntpVars == <<sntp_pc, sntp_reset_cnt, not_sync, restarted>>
vars == <<btnVars, evalVars, orchVars, sessVars, sntpVars>>

-----------------------------------------------------------------------------
(* Option<T> *)
None == [some |-> FALSE]
Some(x) == [some |-> TRUE, v |-> x]

(* sequences *)
Range(s) == {s[i] : i \in DOMAIN s}

-----------------------------------------------------------------------------
(* Bounds of the model *)

\* polls of the analog line that one behaviour follows
MaxPolls == 4

\* text frames the socket delivers in one behaviour
MaxFrames == 3

\* events (of any kind) the socket reports to socket_to_me in one behaviour
MaxEvents == 4

-----------------------------------------------------------------------------
(***************************************************************************)
(* Button Decoder, buttons.rs                                              *)
(***************************************************************************)

\* ADC readings tried at each poll: 0, both edges of every band, a value
\* inside every band, a value in each gap, and values beyond the bands.
Readings == {0, 700, 701, 999, 1000, 1500, 1800, 1801, 2199, 2200, 2250,
             2300, 2301, 2599, 2600, 4095}

ButtonCap == 5

\* a decoder whose bands include their lower edge: not what lines 11-16 do
reading_to_button_ge(r) ==
    IF r >= 700 /\ r < 1000 THEN Some(2)
    ELSE IF r >= 1800 /\ r < 2200 THEN Some(1)
    ELSE IF r >= 2300 /\ r < 2600 THEN Some(0)
    ELSE None

reading_to_button(r) ==
    IF r > 700 /\ r < 1000 THEN Some(2)
    ELSE IF r > 1800 /\ r < 2200 THEN Some(1)
    ELSE IF r > 2300 /\ r < 2600 THEN Some(0)
    ELSE None

\* `this`: [false, false, false] with this[v] = true for Some(v)   (lines 36-40)
ThisOf(now) == [x \in 0..2 |-> now.some /\ now.v = x]

\* the buttons the for loop of lines 43-47 sends, in the order x = 0, 1, 2
RECURSIVE EdgesFrom(_, _, _)
EdgesFrom(x, this, lst) ==
    IF x > 2 THEN <<>>
    ELSE (IF this[x] /\ this[x] # lst[x] THEN <<x>> ELSE <<>>)
         \o EdgesFrom(x + 1, this, lst)

\* a level-triggered loop, which forgets `last`: not what lines 42-50 do
EdgesLevel(this, lst) == EdgesFrom(0, this, [x \in 0..2 |-> FALSE])

Edges(this, lst) == IF lst # this THEN EdgesFrom(0, this, lst) ELSE <<>>

\* line 32: the reading taken before the loop only initialises `cur`
ButtonStart(r) ==
    /\ bpc = "start"
    /\ cur' = reading_to_button(r)
    /\ bpc' = "loop"
    /\ UNCHANGED <<last, button_ch, reading, samples, sent>>
    /\ UNCHANGED <<sntpVars, evalVars, orchVars, sessVars>>

\* one iteration of the loop, lines 35-56; button_tx.send blocks on a full channel
ButtonPoll(r) ==
    /\ bpc = "loop"
    /\ Len(samples) < MaxPolls
    /\ LET now  == reading_to_button(r)
           this == ThisOf(now)
           ev   == Edges(this, last)
       IN /\ Len(button_ch) + Len(ev) <= ButtonCap
          /\ button_ch' = button_ch \o ev
          /\ last' = this
          /\ cur' = now
          /\ reading' = r
          /\ samples' = Append(samples, now)
          /\ sent' = sent \o [i \in 1..Len(ev) |-> <<ev[i], Len(samples) + 1>>]
    /\ UNCHANGED bpc
    /\ UNCHANGED <<sntpVars, evalVars, orchVars, sessVars>>

-----------------------------------------------------------------------------
(***************************************************************************)
(* Strings, str::parse::<i64>, str::parse::<f64>, f64::round and           *)
(* f64::to_string, as util.rs:39-41 and main.rs:326-328 use them.          *)
(***************************************************************************)

DigitChars == <<"0", "1", "2", "3", "4", "5", "6", "7", "8", "9">>

IsDigit(c) == \E d \in 1..10 : DigitChars[d] = c

DigitOf(c) == (CHOOSE d \in 1..10 : DigitChars[d] = c) - 1

AllDigits(s) == \A i \in DOMAIN s : IsDigit(s[i])

\* the number a string of digits denotes
RECURSIVE DigitsVal(_)
DigitsVal(s) ==
    IF s = <<>> THEN 0
    ELSE 10 * DigitsVal(SubSeq(s, 1, Len(s) - 1)) + DigitOf(s[Len(s)])

RECURSIVE Pow10(_)
Pow10(n) == IF n = 0 THEN 1 ELSE 10 * Pow10(n - 1)

\* the decimal digits of n >= 0
RECURSIVE NatToStr(_)
NatToStr(n) ==
    IF n < 10 THEN <<DigitChars[n + 1]>>
    ELSE NatToStr(n \div 10) \o <<DigitChars[(n % 10) + 1]>>

\* <i64 as FromStr>::from_str: an optional sign, then one or more digits.
\* (Strings of the model are far shorter than 19 digits: no overflow error.)
ParseI64(s) ==
    IF s = <<>> THEN None
    ELSE LET signed == s[1] \in {"+", "-"}
             digits == IF signed THEN Tail(s) ELSE s
         IN IF digits = <<>> \/ ~AllDigits(digits) THEN None
            ELSE IF s[1] = "-" THEN Some(0 - DigitsVal(digits))
            ELSE Some(DigitsVal(digits))

\* An f64 is [kind |-> "nan"], [kind |-> "inf", neg] or
\* [kind |-> "num", neg, mant, scale], the number (-1)^neg * mant / 10^scale.
\* Decimal strings this short are far from the limits of f64's precision, so
\* rounding to the nearest integer is decided by the decimal digits.
FNum(neg, mant, scale) == [kind |-> "num", neg |-> neg, mant |-> mant, scale |-> scale]
FInf(neg) == [kind |-> "inf", neg |-> neg]
FNaN == [kind |-> "nan"]

\* ASCII lower case of the letters "inf", "infinity" and "nan" are spelled with
Lower(c) ==
    CASE c = "I" -> "i" [] c = "N" -> "n" [] c = "F" -> "f" [] c = "A" -> "a"
      [] c = "T" -> "t" [] c = "Y" -> "y" [] OTHER -> c

LowerStr(s) == [i \in DOMAIN s |-> Lower(s[i])]

DotsIn(s) == {i \in DOMAIN s : s[i] = "."}

\* core::num::dec2flt: sign, then digits with at most one '.', at least one
\* digit; failing that "inf", "infinity" or "nan" in any case.  (The model's
\* strings hold no 'e' or 'E' next to digits: no exponent part.)
ParseF64(s) ==
    IF s = <<>> THEN None
    ELSE LET neg  == s[1] = "-"
             rest == IF s[1] \in {"+", "-"} THEN Tail(s) ELSE s
             dots == DotsIn(rest)
             dot  == IF dots = {} THEN Len(rest) + 1 ELSE CHOOSE i \in dots : TRUE
             ip   == SubSeq(rest, 1, dot - 1)
             fp   == SubSeq(rest, dot + 1, Len(rest))
             low  == LowerStr(rest)
         IN IF rest = <<>> THEN None
            ELSE IF Cardinality(dots) <= 1 /\ AllDigits(ip) /\ AllDigits(fp)
                    /\ Len(ip) + Len(fp) > 0
                 THEN Some(FNum(neg, DigitsVal(ip \o fp), Len(fp)))
            ELSE IF low = <<"n", "a", "n">> THEN Some(FNaN)
            ELSE IF low \in {<<"i", "n", "f">>,
                             <<"i", "n", "f", "i", "n", "i", "t", "y">>}
                 THEN Some(FInf(neg))
            ELSE None

\* f64 == f64: NaN equals nothing, -0.0 equals 0.0
F64Eq(a, b) ==
    CASE a.kind = "nan" \/ b.kind = "nan" -> FALSE
      [] a.kind = "inf" \/ b.kind = "inf" -> a.kind = b.kind /\ a.neg = b.neg
      [] OTHER -> /\ a.mant * Pow10(b.scale) = b.mant * Pow10(a.scale)
                  /\ (a.neg = b.neg \/ a.mant = 0)

\* f64::round: to the nearest integer, half-way cases away from zero; the
\* sign is kept, so a value in (-0.5, -0.0] rounds to -0.0
Round(f) ==
    IF f.kind # "num" THEN f
    ELSE LET p == Pow10(f.scale)
         IN FNum(f.neg, (f.mant \div p) + (IF 2 * (f.mant % p) >= p THEN 1 ELSE 0), 0)

\* <f64 as Display>::fmt of an integral value
F64ToString(f) ==
    CASE f.kind = "nan" -> <<"N", "a", "N">>
      [] f.kind = "inf" -> (IF f.neg THEN <<"-">> ELSE <<>>) \o <<"i", "n", "f">>
      [] OTHER -> (IF f.neg THEN <<"-">> ELSE <<>>) \o NatToStr(f.mant)

-----------------------------------------------------------------------------
(***************************************************************************)
(* util.rs                                                                 *)
(***************************************************************************)

CmpInt(i) == [t |-> "Int", i |-> i]
CmpStr(s) == [t |-> "Str", s |-> s]
CmpFloat(f) == [t |-> "Float", f |-> f]

\* a comparison that reads the string as f64 for Int too: not what line 53 does
CmpEqAsFloat(cmp, other) ==
    IF ~other.some THEN FALSE
    ELSE CASE cmp.t = "Int" -> ParseF64(other.v).some
                               /\ F64Eq(ParseF64(other.v).v,
                                        FNum(cmp.i < 0, IF cmp.i < 0 THEN 0 - cmp.i ELSE cmp.i, 0))
           [] cmp.t = "Str" -> cmp.s = other.v
           [] cmp.t = "Float" -> ParseF64(other.v).some /\ F64Eq(ParseF64(other.v).v, cmp.f)

\* impl PartialEq<Option<&String>> for &CmpValue, util.rs:49-60
CmpEq(cmp, other) ==
    IF ~other.some THEN FALSE
    ELSE CASE cmp.t = "Int" -> ParseI64(other.v) = Some(cmp.i)
           [] cmp.t = "Str" -> cmp.s = other.v
           [] cmp.t = "Float" -> ParseF64(other.v).some /\ F64Eq(ParseF64(other.v).v, cmp.f)

Scene(s) == [t |-> "Scene", s |-> s]
Service(id, service) == [t |-> "Service", ha_id |-> id, service |-> service]

\* the base of HAACTION_ID, util.rs:78
HAActionIdBase == 1024

\* HAAction::as_json, util.rs:81-107, given the value fetch_add returned
as_json(a, id) ==
    IF a.t = "Scene"
    THEN [type |-> "call_service", domain |-> "scene", service |-> "turn_on",
          entity_id |-> a.s, id |-> id]
    ELSE [type |-> "call_service", domain |-> "light", service |-> a.service,
          entity_id |-> a.ha_id, id |-> id]

\* the three variants of HAConnect, util.rs:110-134
Text(line, text, color) ==
    [kind |-> "Text", line |-> line, text |-> text, color |-> color]
Button(button, id, cmp, text_on, text_off, action_on, action_off, color) ==
    [kind |-> "Button", button |-> button, ha_id |-> id, cmp |-> cmp,
     text_on |-> text_on, text_off |-> text_off, action_on |-> action_on,
     action_off |-> action_off, color |-> color]
Line(line, id, text, make_int, color) ==
    [kind |-> "Line", line |-> line, ha_id |-> id, text |-> text,
     make_int |-> make_int, color |-> color]

\* HashMap<String, String>: a function on its key set
EmptyMap == [k \in {} |-> <<>>]
Get(m, k) == IF k \in DOMAIN m THEN Some(m[k]) ELSE None
Insert(m, k, v) == [x \in (DOMAIN m) \cup {k} |-> IF x = k THEN v ELSE m[x]]

\* HAConnect::is_on, util.rs:137-145
is_on(c, state) ==
    IF c.kind = "Button" THEN CmpEq(c.cmp, Get(state, c.ha_id)) ELSE FALSE

\* HAConnect::ha_id, util.rs:149-155
ha_id(c) == IF c.kind = "Text" THEN c.text ELSE c.ha_id

\* JsonValue
JStr(s) == [t |-> "String", s |-> s]
JNull == [t |-> "Null"]
JObj(fields) == [t |-> "Object", f |-> fields]

\* traverse, util.rs:158-181
RECURSIVE traverse(_, _)
traverse(json, path) ==
    IF path = <<>>
    THEN (IF json.t = "String" THEN Some(json.s) ELSE None)
    ELSE IF json.t = "Object" /\ Head(path) \in DOMAIN json.f
         THEN traverse(json.f[Head(path)], Tail(path))
         ELSE None

-----------------------------------------------------------------------------
(***************************************************************************)
(* The strings of the model                                                *)
(***************************************************************************)

idA == <<"a">>
idB == <<"b">>
idZ == <<"z">>          \* an entity no binding names

tHi   == <<"H", "i">>
tTemp == <<"T", "=">>
tOn   == <<"O", "N">>
tOff  == <<"O", "F", "F">>
tFailed == <<"F", "a", "i", "l", "e", "d", " ", "t", "o", " ", "l", "o", "a", "d",
             " ", "c", "o", "n", "f", "i", "g", "!">>

vEmpty == <<>>
v1     == <<"1">>
v1p0   == <<"1", ".", "0">>
vOn    == <<"o", "n">>
v21p6  == <<"2", "1", ".", "6">>
vAbc   == <<"a", "b", "c">>
vNull  == <<"n", "u", "l", "l">>

-----------------------------------------------------------------------------
(***************************************************************************)
(* display.rs: draw instructions                                           *)
(***************************************************************************)

\* DrawPos::Pos(Point::new(x, y)) and DrawPos::Button(b) (x holds b)
Pos(x, y) == [t |-> "Pos", x |-> x, y |-> y]
ButtonPos(b) == [t |-> "Button", x |-> b, y |-> 0]

\* DrawCmd::Text; the background is Some(WHITE) in every instruction sent
DrawText(pos, font, text, color) ==
    [pos |-> pos, font |-> font, text |-> text, text_color |-> color]

\* what the panel shows at each position once draw_loop has drawn `draws`
RECURSIVE Paint(_, _)
Paint(scr, draws) ==
    IF draws = <<>> THEN scr
    ELSE Paint(Insert(scr, Head(draws).pos, Head(draws).text), Tail(draws))

-----------------------------------------------------------------------------
(***************************************************************************)
(* main.rs: fetch_config, render_states                                    *)
(***************************************************************************)

\* a loader that answers a failure with an empty table: not what lines 69-73 do
fetch_config_empty ==
    IF config_file.some THEN config_file.v ELSE <<>>

\* fetch_config, main.rs:41-76: the parsed file, or the one diagnostic line
\* when the file is missing or does not parse
fetch_config ==
    IF config_file.some THEN config_file.v ELSE <<Text(0, tFailed, 0)>>

\* the position of a Text or Line binding, main.rs:304 and 341
LinePos(line) == Pos(10, 30 * (line + 2))

\* the text of a Line binding, main.rs:322-332
LineStr(text, make_int, st) ==
    IF make_int
    THEN text \o (IF ParseF64(st).some THEN F64ToString(Round(ParseF64(st).v))
                  ELSE <<>>)
    ELSE text \o st

\* what a binding wants shown: None when a Line's entity is not in the store
Desired(c, st) ==
    CASE c.kind = "Text" -> Some(c.text)
      [] c.kind = "Line" -> IF Get(st, c.ha_id).some
                            THEN Some(LineStr(c.text, c.make_int, Get(st, c.ha_id).v))
                            ELSE None
      [] c.kind = "Button" -> Some(IF CmpEq(c.cmp, Get(st, c.ha_id))
                                   THEN c.text_on ELSE c.text_off)

\* the key of a binding in last_state: main.rs:300, 334, 363
RenderKey(c) == IF c.kind = "Text" THEN c.text ELSE c.ha_id

BindingPos(c) == IF c.kind = "Button" THEN ButtonPos(c.button) ELSE LinePos(c.line)

BindingFont(c) == IF c.kind = "Button" THEN "default" ELSE "PROFONT_24_POINT"

\* one binding of render_states: [cache, draws] after it
RenderOne(c, st, r) ==
    LET want == Desired(c, st)
    IN IF want.some /\ want # Get(r.cache, RenderKey(c))
       THEN [cache |-> Insert(r.cache, RenderKey(c), want.v),
             draws |-> Append(r.draws,
                              DrawText(BindingPos(c), BindingFont(c), want.v, c.color))]
       ELSE r

\* render_states, main.rs:288-380: the bindings in order
RECURSIVE RenderFrom(_, _, _, _)
RenderFrom(i, connect, st, r) ==
    IF i > Len(connect) THEN r
    ELSE RenderFrom(i + 1, connect, st, RenderOne(connect[i], st, r))

render_states(connect, st, cache) ==
    RenderFrom(1, connect, st, [cache |-> cache, draws |-> <<>>])

-----------------------------------------------------------------------------
(***************************************************************************)
(* main.rs: the Orchestrator loop                                          *)
(***************************************************************************)

\* get_ha_state, wifi.rs:278-317, then main.rs:196-197: json["state"].to_string()
\* of the response; a response without "state" indexes to Null, shown as "null"
SeedOk(v) == [ok |-> TRUE, json |-> JObj([state |-> JStr(v)])]
SeedErr == [ok |-> FALSE, json |-> JNull]

JsonIndex(json, key) ==
    IF json.t = "Object" /\ key \in DOMAIN json.f THEN json.f[key] ELSE JNull

\* <JsonValue as Display>::fmt of a string or of null
JsonToString(json) == IF json.t = "String" THEN json.s ELSE vNull

\* main.rs:190-192: every binding's ha_id enters the store with ""
RECURSIVE InsertEmpty(_, _, _)
InsertEmpty(i, cfg, st) ==
    IF i > Len(cfg) THEN st
    ELSE InsertEmpty(i + 1, cfg, Insert(st, ha_id(cfg[i]), <<>>))

\* a seeding loop that gives up at the first failed query: not what lines
\* 198-200 do
RECURSIVE SeedFromAbort(_, _, _, _)
SeedFromAbort(i, cfg, seeds, st) ==
    IF i > Len(cfg) \/ ~seeds[i].ok THEN st
    ELSE SeedFromAbort(i + 1, cfg, seeds,
                       Insert(st, ha_id(cfg[i]),
                              JsonToString(JsonIndex(seeds[i].json, "state"))))

\* main.rs:193-203: one get_ha_state per binding; an Err leaves the entry
RECURSIVE SeedFrom(_, _, _, _)
SeedFrom(i, cfg, seeds, st) ==
    IF i > Len(cfg) THEN st
    ELSE SeedFrom(i + 1, cfg, seeds,
                  IF seeds[i].ok
                  THEN Insert(st, ha_id(cfg[i]),
                              JsonToString(JsonIndex(seeds[i].json, "state")))
                  ELSE st)

\* format!("{:>9}:{:0>2}", now.hour(), now.minute()), main.rs:213
PadLeft(s, width, c) ==
    [i \in 1..(IF Len(s) >= width THEN 0 ELSE width - Len(s)) |-> c] \o s

FormatTime(t) ==
    PadLeft(NatToStr(t[1]), 9, " ") \o <<":">> \o PadLeft(NatToStr(t[2]), 2, "0")

ClockPos == Pos(10, 20)

NoStep == [op |-> "none", boot |-> FALSE, entity |-> None, tracked |-> FALSE,
           storeChanged |-> FALSE, cacheChanged |-> FALSE, rendered |-> FALSE,
           enq |-> 0, button |-> 0 - 1, seeds |-> <<>>]

\* the answers the query endpoint may give for a binding: the entity's state,
\* or an error (always an error for an identity the service does not know)
SeedResults(c) ==
    {SeedErr} \cup (IF ha_id(c) \in DOMAIN remote THEN {SeedOk(remote[ha_id(c)])}
                    ELSE {})

SeedChoices(cfg) ==
    {seeds \in [1..Len(cfg) -> {SeedErr} \cup {SeedOk(remote[k]) : k \in DOMAIN remote}] :
        \A i \in 1..Len(cfg) : seeds[i] \in SeedResults(cfg[i])}

\* main.rs:186-208: the bootstrap, on the store `st` and the cache `cache`
Bootstrap(seeds, st, cache) ==
    LET cfg == fetch_config
        st2 == SeedFrom(1, cfg, seeds, InsertEmpty(1, cfg, st))
        r   == render_states(cfg, st2, cache)
    IN [ha_config |-> cfg, states |-> st2, last_state |-> r.cache, draws |-> r.draws]

\* a clock line drawn on every iteration once HAS_TIME is set: not what the
\* comparison of line 213 does
ClockDrawsAlways ==
    IF has_time
    THEN <<DrawText(ClockPos, "PROFONT_24_POINT", FormatTime(wall_clock), 0)>>
    ELSE <<>>

\* main.rs:211-224: the clock line, drawn when HAS_TIME is set and the
\* formatted time differs from last_time
ClockDraws ==
    IF has_time /\ FormatTime(wall_clock) # last_time
    THEN <<DrawText(ClockPos, "PROFONT_24_POINT", FormatTime(wall_clock), 0)>>
    ELSE <<>>

\* The loop blocks only in the select of line 227.  What it does from there on
\* is one step: the arm that was taken, then lines 184-224 of the next
\* iteration (the bootstrap, if it is due, and the clock).  `st`, `cache` and
\* `draws` are the store, the cache and the instructions as the arm leaves them.
LoopTop(st, cache, draws, info) ==
    /\ opc' = "select"
    /\ IF ~first_sample /\ has_wifi
       THEN \E seeds \in SeedChoices(fetch_config) :
              LET b == Bootstrap(seeds, st, cache)
              IN /\ ha_config' = b.ha_config
                 /\ states' = b.states
                 /\ last_state' = b.last_state
                 /\ first_sample' = TRUE
                 /\ top_drawn' = b.draws \o ClockDraws
                 /\ step' = [info EXCEPT !.boot = TRUE, !.seeds = seeds]
       ELSE /\ states' = st
            /\ last_state' = cache
            /\ top_drawn' = ClockDraws
            /\ step' = info
            /\ UNCHANGED <<ha_config, first_sample>>
    /\ drawn' = draws
    /\ screen' = Paint(screen, draws \o top_drawn')
    /\ last_time' = IF ClockDraws # <<>> THEN FormatTime(wall_clock) ELSE last_time
    /\ UNCHANGED <<has_wifi, has_time, wall_clock, config_file, remote>>

\* the first iteration, from main.rs:183 to the select
OrchStart ==
    /\ opc = "start"
    /\ LoopTop(states, last_state, <<>>, [NoStep EXCEPT !.op = "start"])
    /\ UNCHANGED <<haaction_id, dispatched>>
    /\ UNCHANGED <<sntpVars, btnVars, evalVars, sessVars>>

SendJson(json) == [cmd |-> "SendJson", json |-> json]
Reconnect == [cmd |-> "Reconnect", json |-> JNull]

\* main.rs:231-247: the commands one button event enqueues, in binding order;
\* each as_json takes the next value of HAACTION_ID
RECURSIVE ButtonCmds(_, _, _, _, _)
ButtonCmds(i, cfg, the_button, st, id) ==
    IF i > Len(cfg) THEN <<>>
    ELSE IF cfg[i].kind = "Button" /\ cfg[i].button = the_button
         THEN LET on  == is_on(cfg[i], st)
                  cmd == IF on THEN cfg[i].action_off ELSE cfg[i].action_on
              IN <<SendJson(as_json(cmd, id))>>
                 \o ButtonCmds(i + 1, cfg, the_button, st, id + 1)
         ELSE ButtonCmds(i + 1, cfg, the_button, st, id)

\* a counter that is read but not advanced: not what fetch_add does
FetchAddKeep(id, n) == id

\* HAACTION_ID.fetch_add(1), util.rs:92 and 104, once per command
FetchAdd(id, n) == id + n

\* an arm that records the state its command asks for: not what lines 229-248 do
StoreAfterPressOptimistic(cfg, the_button, st) ==
    LET hit == {i \in DOMAIN cfg : cfg[i].kind = "Button" /\ cfg[i].button = the_button}
    IN IF hit = {} THEN st
       ELSE LET i == CHOOSE j \in hit : TRUE
            IN Insert(st, cfg[i].ha_id, IF is_on(cfg[i], st) THEN <<>> ELSE cfg[i].text_on)

\* the State Store as the button arm leaves it: the arm passes `&states` to
\* is_on (main.rs:236) and never writes it
StoreAfterPress(cfg, the_button, st) == st

\* a channel made by mpsc::sync_channel(1), whose send waits for room: not what
\* main.rs:107 makes
MpscCanSendBounded(q) == Len(q) < 1

\* Sender::send on a channel made by mpsc::channel(), main.rs:101 and 107: the
\* channel is unbounded and the send returns at once
MpscCanSend(q) == TRUE

\* select arm recv(button_rx), main.rs:229-248
OnButton ==
    /\ opc = "select"
    /\ button_ch # <<>>
    /\ LET cmds == ButtonCmds(1, ha_config, Head(button_ch), states, haaction_id)
       IN /\ cmds # <<>> => MpscCanSend(socket_q)
          /\ socket_q' = socket_q \o cmds
          /\ haaction_id' = FetchAdd(haaction_id, Len(cmds))
          /\ dispatched' = dispatched \o [i \in 1..Len(cmds) |-> cmds[i].json.id]
          /\ LoopTop(StoreAfterPress(ha_config, Head(button_ch), states), last_state, <<>>,
                     [NoStep EXCEPT !.op = "button", !.enq = Len(cmds),
                         !.button = Head(button_ch)])
    /\ button_ch' = Tail(button_ch)
    /\ UNCHANGED <<bpc, cur, last, reading, samples, sent>>
    /\ UNCHANGED <<spc, socket_client, ha_ch, live, opened, sess, wire, received,
                   forwarded>>
    /\ UNCHANGED <<sntpVars, evalVars>>

EntityPath == <<"event", "data", "entity_id">>
StatePath == <<"event", "data", "new_state", "state">>

\* accepting every entity that is named: not what line 261 does
TrackedAny(st, entity) == entity.some

\* main.rs:260-261: is the event's entity a key of the store?
Tracked(st, entity) == entity.some /\ entity.v \in DOMAIN st

\* select arm recv(ha_rx), main.rs:250-277
OnHaEvent ==
    /\ opc = "select"
    /\ ha_ch # <<>>
    /\ LET json    == Head(ha_ch)
           entity  == traverse(json, EntityPath)
           v       == traverse(json, StatePath)
           changed == Tracked(states, entity) /\ v.some
           st      == IF changed THEN Insert(states, entity.v, v.v) ELSE states
           r       == IF changed THEN render_states(ha_config, st, last_state)
                      ELSE [cache |-> last_state, draws |-> <<>>]
       IN LoopTop(st, r.cache, r.draws,
                  [NoStep EXCEPT !.op = "ha", !.entity = entity,
                      !.tracked = (entity.some /\ entity.v \in DOMAIN states),
                      !.storeChanged = (st # states),
                      !.cacheChanged = (r.cache # last_state),
                      !.rendered = changed])
    /\ ha_ch' = Tail(ha_ch)
    /\ UNCHANGED <<haaction_id, dispatched>>
    /\ UNCHANGED <<spc, socket_client, socket_q, live, opened, sess, wire, received,
                   forwarded>>
    /\ UNCHANGED <<sntpVars, btnVars, evalVars>>

\* select arm default(1 s), main.rs:281: taken when neither channel is ready
OnTimeout ==
    /\ opc = "select"
    /\ button_ch = <<>>
    /\ ha_ch = <<>>
    /\ LoopTop(states, last_state, <<>>, [NoStep EXCEPT !.op = "timeout"])
    /\ UNCHANGED <<haaction_id, dispatched>>
    /\ UNCHANGED <<sntpVars, btnVars, evalVars, sessVars>>

-----------------------------------------------------------------------------
(***************************************************************************)
(* wifi.rs: the Session Manager                                            *)
(***************************************************************************)

\* a text frame: data that json::parse accepts, or data it rejects
Parsed(json) == [ok |-> TRUE, json |-> json]
Garbage == [ok |-> FALSE, json |-> JNull]

sAuthOk == <<"a", "u", "t", "h", "_", "o", "k">>
sAuthRequired == <<"a", "u", "t", "h", "_", "r", "e", "q", "u", "i", "r", "e", "d">>
sEvent == <<"e", "v", "e", "n", "t">>

fAuthOk == Parsed(JObj([type |-> JStr(sAuthOk)]))
fAuthRequired == Parsed(JObj([type |-> JStr(sAuthRequired)]))
fEvent(e, v) ==
    Parsed(JObj([type |-> JStr(sEvent),
                 event |-> JObj([data |-> JObj([entity_id |-> JStr(e),
                                                new_state |-> JObj([state |-> JStr(v)])])])]))
\* the entity was removed: new_state is null
fEventGone(e) ==
    Parsed(JObj([type |-> JStr(sEvent),
                 event |-> JObj([data |-> JObj([entity_id |-> JStr(e),
                                                new_state |-> JNull])])]))

\* object!{type: "auth", access_token: auth_token}, wifi.rs:72
AuthMsg == [type |-> "auth", id |-> 0]
\* object!{id: 42, type: "subscribe_events"}, wifi.rs:90-92
SubscribeId == 42
SubscribeMsg == [type |-> "subscribe_events", id |-> SubscribeId]

\* the capacity of the decoded-event channel, main.rs:105
HaCap == 60

\* what the socket did on a client object so far
NewSess == [conn |-> "connecting"]

\* an entry of the history `received`: an event reported for client c, with
\* the number of payloads transmitted before it
Event(c, ev, f) == [c |-> c, ev |-> ev, f |-> f, at |-> Len(wire)]

TextEvents(h) == {i \in DOMAIN h : h[i].ev = "Text"}

\* the restart threshold of wifi.rs:263
SntpResetLimit == 100

SyncStatus == {"Completed", "InProgress", "Reset"}

\* create_wifi, wifi.rs:245: the loop sleeps 7 s before it looks at the status
SntpSleep ==
    /\ sntp_pc = "sleep"
    /\ ~restarted
    /\ sntp_pc' = "poll"
    /\ UNCHANGED <<sntp_reset_cnt, not_sync, restarted>>
    /\ UNCHANGED <<btnVars, evalVars, orchVars, sessVars>>

\* create_wifi, wifi.rs:246-270: while not_sync, one get_sync_status() and the
\* arm of its match; restart() does not return
SntpPoll(status) ==
    /\ sntp_pc = "poll"
    /\ ~restarted
    /\ IF not_sync
       THEN /\ has_time' = (has_time \/ status = "Completed")
            /\ not_sync' = (status # "Completed")
            /\ sntp_reset_cnt' = IF status = "Reset" THEN sntp_reset_cnt + 1
                                 ELSE sntp_reset_cnt
            /\ restarted' = (status = "Reset" /\ sntp_reset_cnt' > SntpResetLimit)
       ELSE UNCHANGED <<has_time, not_sync, sntp_reset_cnt, restarted>>
    /\ sntp_pc' = IF restarted' THEN "poll" ELSE "sleep"
    /\ UNCHANGED <<opc, has_wifi, wall_clock, last_time, config_file, remote,
                   first_sample, ha_config, states, last_state, haaction_id, drawn,
                   top_drawn, screen, step, dispatched>>
    /\ UNCHANGED <<btnVars, evalVars, sessVars>>

\* the readings Local::now() may give, as <<hour, minute>>
ClockValues == {<<0, 0>>, <<0, 1>>, <<9, 59>>, <<10, 0>>}

\* time passes: Local::now() (main.rs:211) reads another minute
Tick ==
    /\ \E t \in ClockValues \ {wall_clock} : wall_clock' = t
    /\ UNCHANGED <<opc, has_wifi, has_time, last_time, config_file, remote,
                   first_sample, ha_config, states, last_state, haaction_id, drawn,
                   top_drawn, screen, step, dispatched>>
    /\ UNCHANGED <<sntpVars, btnVars, evalVars, sessVars>>

\* wifi.rs:197: the network bring-up sets HAS_WIFI
WifiUp ==
    /\ ~has_wifi
    /\ has_wifi' = TRUE
    /\ UNCHANGED <<opc, has_time, wall_clock, last_time, config_file, remote,
                   first_sample, ha_config, states, last_state, haaction_id, drawn,
                   top_drawn, screen, step, dispatched>>
    /\ UNCHANGED <<sntpVars, btnVars, evalVars, sessVars>>

\* wifi.rs:54-56: handle_websocket waits for the wifi stack
SessionStart ==
    /\ spc = "wait"
    /\ has_wifi
    /\ spc' = "loop"
    /\ UNCHANGED <<socket_client, socket_q, ha_ch, live, opened, sess, wire, received,
                   forwarded>>
    /\ UNCHANGED <<sntpVars, btnVars, evalVars, orchVars>>

\* a teardown that leaves the client object alive: not what the assignment does
DropClientLeak(objs, c) == objs

\* `socket_client = None` drops the client object, wifi.rs:137, 144, 156;
\* `socket_client = tmp_socket_client` (line 122) drops what it replaces
DropClient(objs, c) == objs \ {c}

\* wifi.rs:110-129: with no client, try to create one; on failure sleep 250 ms
ConnectGuard == socket_client = 0

Connect(ok) ==
    /\ spc = "loop"
    /\ ConnectGuard
    /\ IF ok
       THEN /\ opened' = opened + 1
            /\ socket_client' = opened + 1
            /\ live' = live \cup {opened + 1}
            /\ sess' = Insert(sess, opened + 1, NewSess)
       ELSE UNCHANGED <<opened, socket_client, live, sess>>
    /\ UNCHANGED <<spc, socket_q, ha_ch, wire, received, forwarded>>
    /\ UNCHANGED <<sntpVars, btnVars, evalVars, orchVars>>

\* a manager that keeps the client after a failed send: not what lines 142-145
\* and 154-157 do
AfterSendKeep(client, ok) == client

\* the client the manager holds after e.send, wifi.rs:140-146 and 152-158:
\* Ok(_) keeps it, Err(e) assigns None
AfterSend(client, ok) == IF ok THEN client ELSE 0

\* wifi.rs:131-162: with a client, take one command and act on it; a send
\* on the socket succeeds (ok) or fails
Recv(ok) ==
    /\ spc = "loop"
    /\ socket_client # 0
    /\ socket_q # <<>>
    /\ LET c == Head(socket_q)
       IN /\ socket_client' = IF c.cmd = "Reconnect" THEN 0
                               ELSE AfterSend(socket_client, ok)
          /\ live' = IF socket_client' = 0 THEN DropClient(live, socket_client)
                     ELSE live
          /\ wire' = IF c.cmd # "Reconnect" /\ ok
                     THEN Append(wire, <<socket_client, c.json>>)
                     ELSE wire
    /\ socket_q' = Tail(socket_q)
    /\ UNCHANGED <<spc, ha_ch, opened, sess, received, forwarded>>
    /\ UNCHANGED <<sntpVars, btnVars, evalVars, orchVars>>

\* socket_to_me, wifi.rs:66-75: the client reports Connected
CbConnected(c) ==
    /\ c \in live
    /\ sess[c].conn = "connecting"
    /\ Len(received) < MaxEvents
    /\ received' = Append(received, Event(c, "Connected", Garbage))
    /\ socket_q' = Append(socket_q, SendJson(AuthMsg))
    /\ sess' = [sess EXCEPT ![c].conn = "connected"]
    /\ UNCHANGED <<spc, socket_client, ha_ch, live, opened, wire, forwarded>>
    /\ UNCHANGED <<sntpVars, btnVars, evalVars, orchVars>>

\* wifi.rs:88: json["type"] == auth_okay
IsAuthOk(json) == JsonIndex(json, "type") = JStr(sAuthOk)

\* a callback that asks for a reconnect on a frame it cannot parse: not what
\* lines 98-100 do
OnParseErrorReconnect(q) == Append(q, Reconnect)

\* wifi.rs:98-100: the Err(_e) arm of json::parse is empty, the command
\* channel is left as it is
OnParseError(q) == q

\* a channel that always takes the value: not what bounded(60) gives
CanSendAlways(ch, cap) == TRUE

\* Sender::send on a channel made by bounded(cap), main.rs:103-105: it returns
\* once there is room for the value, and blocks until then
CanSend(ch, cap) == Len(ch) < cap

\* socket_to_me, wifi.rs:82-102: the client delivers a text frame;
\* ha_tx.send blocks while the channel is full
TextFrame(c, f) ==
    /\ c \in live
    /\ sess[c].conn = "connected"
    /\ Len(received) < MaxEvents
    /\ Cardinality(TextEvents(received)) < MaxFrames
    /\ received' = Append(received, Event(c, "Text", f))
    /\ IF f.ok
       THEN IF IsAuthOk(f.json)
            THEN /\ socket_q' = Append(socket_q, SendJson(SubscribeMsg))
                 /\ UNCHANGED <<ha_ch, forwarded>>
            ELSE /\ CanSend(ha_ch, HaCap)
                 /\ ha_ch' = Append(ha_ch, f.json)
                 /\ forwarded' = Append(forwarded, f.json)
                 /\ UNCHANGED socket_q
       ELSE /\ socket_q' = OnParseError(socket_q)
            /\ UNCHANGED <<ha_ch, forwarded>>
    /\ UNCHANGED <<spc, socket_client, live, opened, sess, wire>>

\* a text frame arrives while the Orchestrator and the other threads stand still
CbText(c, f) ==
    /\ TextFrame(c, f)
    /\ UNCHANGED <<sntpVars, btnVars, evalVars, orchVars>>

\* socket_to_me, wifi.rs:62-65: the client reports a transport error
CbError(c) ==
    /\ c \in live
    /\ sess[c].conn # "down"
    /\ Len(received) < MaxEvents
    /\ received' = Append(received, Event(c, "Error", Garbage))
    /\ socket_q' = Append(socket_q, Reconnect)
    /\ UNCHANGED <<spc, socket_client, ha_ch, live, opened, sess, wire, forwarded>>
    /\ UNCHANGED <<sntpVars, btnVars, evalVars, orchVars>>

\* socket_to_me, wifi.rs:76-81: the client reports Disconnected
CbDisconnected(c) ==
    /\ c \in live
    /\ sess[c].conn # "down"
    /\ Len(received) < MaxEvents
    /\ received' = Append(received, Event(c, "Disconnected", Garbage))
    /\ socket_q' = Append(socket_q, Reconnect)
    /\ sess' = [sess EXCEPT ![c].conn = "down"]
    /\ UNCHANGED <<spc, socket_client, ha_ch, live, opened, wire, forwarded>>
    /\ UNCHANGED <<sntpVars, btnVars, evalVars, orchVars>>

-----------------------------------------------------------------------------
(***************************************************************************)
(* Harness for the pure functions: HAConnect::is_on (util.rs:137) and the  *)
(* text render_states draws for a Line binding (main.rs:313-350)           *)
(***************************************************************************)

vPlus1  == <<"+", "1">>
v01     == <<"0", "1">>
v21p5   == <<"2", "1", ".", "5">>
v21p4   == <<"2", "1", ".", "4">>
vM0p4   == <<"-", "0", ".", "4">>
vM21p5  == <<"-", "2", "1", ".", "5">>
v1dot   == <<"1", ".">>
vDot5   == <<".", "5">>
vDot    == <<".">>
vMinus  == <<"-">>
vNan    == <<"n", "a", "n">>
vInf    == <<"i", "n", "f">>
vMInf   == <<"-", "I", "N", "F">>
v1sp    == <<"1", " ">>

\* tracked values the functions are evaluated on
EvalValues == {vEmpty, v1, vPlus1, v01, v1p0, vOn, v21p6, v21p5, v21p4, vM0p4, vM21p5,
               v1dot, vDot5, vDot, vMinus, vAbc, vNan, vInf, vMInf, v1sp}

\* comparison values of a Toggle binding
EvalCmps == {CmpInt(1), CmpInt(0), CmpStr(v1), CmpStr(vOn), CmpFloat(FNum(FALSE, 1, 0)),
             CmpFloat(FNum(FALSE, 216, 1))}

EvalToggle(cmp) ==
    Button(0, idB, cmp, tOn, tOff, Service(idB, "turn_on"), Service(idB, "turn_off"), 0)

NoEval == [fn |-> "none", c |-> Text(0, <<>>, 0), state |-> EmptyMap]
NoResult == [on |-> FALSE, draws |-> <<>>]

\* is_on of a Toggle binding, on a store that holds the entity or does not
EvalIsOn ==
    \E cmp \in EvalCmps, st \in {EmptyMap} \cup {Insert(EmptyMap, idB, v) : v \in EvalValues} :
        /\ evalIn' = [fn |-> "is_on", c |-> EvalToggle(cmp), state |-> st]
        /\ evalOut' = [NoResult EXCEPT !.on = is_on(EvalToggle(cmp), st)]
        /\ UNCHANGED <<sntpVars, btnVars, orchVars, sessVars>>

\* render_states of one Line binding on an empty Render Cache
EvalLine ==
    \E text \in {tTemp, <<>>}, make_int \in BOOLEAN, v \in EvalValues :
        LET c  == Line(1, idA, text, make_int, 0)
            st == Insert(EmptyMap, idA, v)
        IN /\ evalIn' = [fn |-> "render_states", c |-> c, state |-> st]
           /\ evalOut' = [NoResult EXCEPT
                             !.draws = render_states(<<c>>, st, EmptyMap).draws]
           /\ UNCHANGED <<sntpVars, btnVars, orchVars, sessVars>>

-----------------------------------------------------------------------------
(***************************************************************************)
(* Initial states and specifications                                       *)
(***************************************************************************)

\* button_loop about to take its first reading, buttons.rs:32-33
BtnInit ==
    /\ bpc = "start"
    /\ cur = None
    /\ last = [x \in 0..2 |-> FALSE]
    /\ button_ch = <<>>
    /\ reading = 0 - 1
    /\ samples = <<>>
    /\ sent = <<>>

\* button_loop after the presses p, each followed by a release, none of them
\* received yet
BtnPressed(p) ==
    /\ bpc = "loop"
    /\ cur = None
    /\ last = [x \in 0..2 |-> FALSE]
    /\ button_ch = p
    /\ reading = 0
    /\ samples = [i \in 1..(2 * Len(p)) |-> IF i % 2 = 1 THEN Some(p[(i + 1) \div 2]) ELSE None]
    /\ sent = [i \in 1..Len(p) |-> <<p[i], 2 * i - 1>>]

EvalInit ==
    /\ evalIn = NoEval
    /\ evalOut = NoResult

\* wifi.rs:237 and 243: the counter and the flag before the loop
SntpInit ==
    /\ sntp_pc = "sleep"
    /\ sntp_reset_cnt = 0
    /\ not_sync = TRUE
    /\ restarted = FALSE

\* main.rs:177-181 and the statics of main.rs:37-39, util.rs:78
OrchInit ==
    /\ opc = "start"
    /\ has_wifi = FALSE
    /\ has_time = FALSE
    /\ wall_clock = <<0, 0>>
    /\ last_time = <<>>
    /\ first_sample = FALSE
    /\ ha_config = <<>>
    /\ states = EmptyMap
    /\ last_state = EmptyMap
    /\ haaction_id = HAActionIdBase
    /\ drawn = <<>>
    /\ top_drawn = <<>>
    /\ screen = EmptyMap
    /\ step = NoStep
    /\ dispatched = <<>>

\* wifi.rs:108 and the channels of main.rs:105-107
SessInit ==
    /\ spc = "wait"
    /\ socket_client = 0
    /\ socket_q = <<>>
    /\ ha_ch = <<>>
    /\ live = {}
    /\ opened = 0
    /\ sess = [c \in {} |-> NewSess]
    /\ wire = <<>>
    /\ received = <<>>
    /\ forwarded = <<>>

\* the first client is connected and its authentication frame was sent
SessConnected ==
    /\ spc = "loop"
    /\ socket_client = 1
    /\ socket_q = <<>>
    /\ ha_ch = <<>>
    /\ live = {1}
    /\ opened = 1
    /\ sess = [c \in {1} |-> [NewSess EXCEPT !.conn = "connected"]]
    /\ wire = << <<1, AuthMsg>> >>
    /\ received = <<>>
    /\ forwarded = <<>>

\* binding tables a configuration file may hold
ToggleB(button) ==
    Button(button, idB, CmpInt(1), tOn, tOff, Service(idB, "turn_on"),
           Service(idB, "turn_off"), 2016)

CfgMixed == <<Text(0, tHi, 0), Line(1, idA, tTemp, TRUE, 31), ToggleB(0)>>

\* a Mirror and a Toggle binding on the same entity
CfgShared ==
    <<Line(1, idA, <<>>, FALSE, 0),
      Button(1, idA, CmpStr(vOn), tOn, tOff, Scene(idZ), Service(idA, "turn_off"), 0)>>

\* two Toggle bindings on the same button
CfgTwoToggles ==
    <<ToggleB(0), Button(0, idA, CmpStr(vOn), tOn, tOff, Service(idA, "turn_on"),
                         Service(idA, "turn_off"), 0)>>

Configs == {None, Some(CfgMixed), Some(CfgShared), Some(CfgTwoToggles)}

\* what the remote service holds
RemoteInit == Insert(Insert(EmptyMap, idA, v21p6), idB, v1)

\* ---- the Button Decoder alone ----
InitButtons ==
    /\ BtnInit /\ EvalInit /\ SntpInit /\ OrchInit /\ SessInit
    /\ config_file = None
    /\ remote = RemoteInit

NextButtons ==
    \/ \E r \in Readings : ButtonStart(r)
    \/ \E r \in Readings : ButtonPoll(r)

SpecButtons == InitButtons /\ [][NextButtons]_vars

\* ---- the pure functions ----
InitEval ==
    /\ BtnInit /\ EvalInit /\ SntpInit /\ OrchInit /\ SessInit
    /\ config_file = None
    /\ remote = RemoteInit

NextEval == EvalIsOn \/ EvalLine

SpecEval == InitEval /\ [][NextEval]_vars

\* ---- the Orchestrator, fed by a connected session ----
\* the frames the session may deliver; the failure line of fetch_config is
\* tracked under its own text (util.rs:153), so with that table an event
\* naming it is delivered too
OrchFrames ==
    {fEvent(idA, vOn), fEvent(idB, vOn), fEvent(idZ, v1), fEventGone(idA), fAuthRequired}
      \cup (IF config_file = None THEN {fEvent(tFailed, vOn)} ELSE {})

Init ==
    /\ \E p \in {<<>>, <<0>>, <<0, 1>>} : BtnPressed(p)
    /\ EvalInit
    /\ SntpInit
    /\ SessConnected
    /\ opc \in {"start", "select"}
    /\ has_wifi = TRUE
    /\ has_time = FALSE
    /\ wall_clock = <<0, 0>>
    /\ last_time = <<>>
    /\ first_sample = FALSE
    /\ ha_config = <<>>
    /\ states = EmptyMap
    /\ last_state = EmptyMap
    /\ haaction_id = HAActionIdBase
    /\ drawn = <<>>
    /\ top_drawn = <<>>
    /\ screen = EmptyMap
    /\ step = NoStep
    /\ dispatched = <<>>
    /\ config_file \in Configs
    /\ remote = RemoteInit

Next ==
    \/ OrchStart
    \/ OnButton
    \/ OnHaEvent
    \/ OnTimeout
    \/ \E f \in OrchFrames : CbText(1, f)

Spec == Init /\ [][Next]_vars

\* ---- the clock line: the Orchestrator, the time-sync loop and the clock ----
ClockFrames == {fEvent(idB, vOn), fEvent(idZ, v1)}

InitClock ==
    /\ BtnPressed(<<>>)
    /\ EvalInit
    /\ SntpInit
    /\ SessConnected
    /\ opc = "start"
    /\ has_wifi = TRUE
    /\ has_time = FALSE
    /\ wall_clock = <<0, 0>>
    /\ last_time = <<>>
    /\ first_sample = FALSE
    /\ ha_config = <<>>
    /\ states = EmptyMap
    /\ last_state = EmptyMap
    /\ haaction_id = HAActionIdBase
    /\ drawn = <<>>
    /\ top_drawn = <<>>
    /\ screen = EmptyMap
    /\ step = NoStep
    /\ dispatched = <<>>
    /\ config_file = Some(CfgMixed)
    /\ remote = RemoteInit

NextClock ==
    \/ OrchStart
    \/ OnHaEvent
    \/ OnTimeout
    \/ Tick
    \/ SntpSleep
    \/ \E s \in {"Completed", "InProgress"} : SntpPoll(s)
    \/ \E f \in ClockFrames : CbText(1, f)

SpecClock == InitClock /\ [][NextClock]_vars

\* ---- the time-sync loop alone; the thread is scheduled again after each
\* sleep, which is the fairness stated ----
NextSntp == SntpSleep \/ \E s \in SyncStatus : SntpPoll(s)

SpecSntp == InitClock /\ [][NextSntp]_vars /\ WF_vars(NextSntp)

\* ---- full channels: the Orchestrator is behind on both bounded channels ----
\* four presses and HaCap - 1 events for entity b wait to be received
InitFull ==
    /\ bpc = "loop"
    /\ cur = None
    /\ last = [x \in 0..2 |-> FALSE]
    /\ button_ch = <<0, 1, 2, 0>>
    /\ reading = 0
    /\ samples = <<>>
    /\ sent = <<>>
    /\ EvalInit
    /\ SntpInit
    /\ config_file = Some(<<Text(0, tHi, 0)>>)
    /\ remote = RemoteInit
    /\ opc = "select"
    /\ has_wifi = TRUE
    /\ has_time = FALSE
    /\ wall_clock = <<0, 0>>
    /\ last_time = <<>>
    /\ first_sample = TRUE
    /\ ha_config = <<Text(0, tHi, 0)>>
    /\ states = Insert(EmptyMap, tHi, <<>>)
    /\ last_state = render_states(ha_config, states, EmptyMap).cache
    /\ haaction_id = HAActionIdBase
    /\ drawn = <<>>
    /\ top_drawn = render_states(ha_config, states, EmptyMap).draws
    /\ screen = Paint(EmptyMap, top_drawn)
    /\ step = [NoStep EXCEPT !.op = "start", !.boot = TRUE]
    /\ dispatched = <<>>
    /\ spc = "loop"
    /\ socket_client = 1
    /\ socket_q = <<>>
    /\ ha_ch = [i \in 1..(HaCap - 1) |-> fEvent(idB, vOn).json]
    /\ live = {1}
    /\ opened = 1
    /\ sess = [c \in {1} |-> [NewSess EXCEPT !.conn = "connected"]]
    /\ wire = << <<1, AuthMsg>> >>
    /\ received = <<>>
    /\ forwarded = ha_ch

NextFull ==
    \/ \E r \in {0, 2400} : ButtonPoll(r)
    \/ OnButton
    \/ OnHaEvent
    \/ CbText(1, fEvent(idZ, v1))

SpecFull == InitFull /\ [][NextFull]_vars

\* ---- both bounded channels full, under fair scheduling: five presses of
\* button 0 on one Toggle binding and HaCap events for an untracked entity wait ----
InitLive ==
    /\ bpc = "loop"
    /\ cur = None
    /\ last = [x \in 0..2 |-> FALSE]
    /\ button_ch = [i \in 1..ButtonCap |-> 0]
    /\ reading = 0
    /\ samples = <<>>
    /\ sent = <<>>
    /\ EvalInit
    /\ SntpInit
    /\ config_file = Some(<<ToggleB(0)>>)
    /\ remote = RemoteInit
    /\ opc = "select"
    /\ has_wifi = TRUE
    /\ has_time = FALSE
    /\ wall_clock = <<0, 0>>
    /\ last_time = <<>>
    /\ first_sample = TRUE
    /\ ha_config = <<ToggleB(0)>>
    /\ states = Insert(EmptyMap, idB, v1)
    /\ last_state = render_states(ha_config, states, EmptyMap).cache
    /\ haaction_id = HAActionIdBase
    /\ drawn = <<>>
    /\ top_drawn = render_states(ha_config, states, EmptyMap).draws
    /\ screen = Paint(EmptyMap, top_drawn)
    /\ step = [NoStep EXCEPT !.op = "start", !.boot = TRUE]
    /\ dispatched = <<>>
    /\ spc = "loop"
    /\ socket_client = 1
    /\ socket_q = <<>>
    /\ ha_ch = [i \in 1..HaCap |-> fEvent(idZ, v1).json]
    /\ live = {1}
    /\ opened = 1
    /\ sess = [c \in {1} |-> [NewSess EXCEPT !.conn = "connected"]]
    /\ wire = << <<1, AuthMsg>> >>
    /\ received = <<>>
    /\ forwarded = ha_ch

\* button 0 is pressed again and held; the Session Manager thread is not
\* scheduled, so the commands of the Orchestrator stay in their channel
NextLive ==
    \/ ButtonPoll(2400)
    \/ OnButton
    \/ OnHaEvent
    \/ OnTimeout
    \/ CbText(1, fEvent(idZ, v1))

\* select! takes a ready arm, chosen at random among the ready ones
\* (main.rs:227-282), and the main thread is scheduled: an arm that stays ready
\* is taken.  Nothing is assumed of the other threads or of the network.
SpecLive ==
    /\ InitLive
    /\ [][NextLive]_vars
    /\ WF_vars(OnButton)
    /\ WF_vars(OnHaEvent)

\* ---- the Session Manager, with the Orchestrator on one Toggle binding ----
SessFrames == {fAuthOk, fAuthRequired, fEvent(idZ, v1), Garbage}

\* the Orchestrator at its select, bootstrapped on the table cfg with the
\* store st, and the presses p waiting in the button-event channel
OrchBootstrapped(cfg, st, p) ==
    /\ BtnPressed(p)
    /\ EvalInit
    /\ SntpInit
    /\ config_file = Some(cfg)
    /\ remote = RemoteInit
    /\ opc = "select"
    /\ has_wifi = TRUE
    /\ has_time = FALSE
    /\ wall_clock = <<0, 0>>
    /\ last_time = <<>>
    /\ first_sample = TRUE
    /\ ha_config = cfg
    /\ states = st
    /\ last_state = render_states(cfg, st, EmptyMap).cache
    /\ haaction_id = HAActionIdBase
    /\ drawn = <<>>
    /\ top_drawn = render_states(cfg, st, EmptyMap).draws
    /\ screen = Paint(EmptyMap, top_drawn)
    /\ step = [NoStep EXCEPT !.op = "start", !.boot = TRUE]
    /\ dispatched = <<>>

\* the Orchestrator has bootstrapped on one Toggle binding before the Session
\* Manager saw HAS_WIFI
InitSession ==
    /\ OrchBootstrapped(<<ToggleB(0)>>, Insert(EmptyMap, idB, v1), <<0>>)
    /\ SessInit

NextSession ==
    \/ SessionStart
    \/ \E ok \in BOOLEAN : Connect(ok)
    \/ \E ok \in BOOLEAN : Recv(ok)
    \/ \E c \in live : CbConnected(c)
    \/ \E c \in live, f \in SessFrames : CbText(c, f)
    \/ \E c \in live : CbError(c)
    \/ \E c \in live : CbDisconnected(c)
    \/ OnButton
    \/ OnHaEvent

SpecSession == InitSession /\ [][NextSession]_vars

\* ---- dispatch across reconnects: two Toggle bindings on one button, two
\* presses, sessions that connect, disconnect and fail to send ----
InitDispatch ==
    /\ OrchBootstrapped(CfgTwoToggles, RemoteInit, <<0, 0>>)
    /\ SessInit

NextDispatch ==
    \/ SessionStart
    \/ \E ok \in BOOLEAN : Connect(ok)
    \/ \E ok \in BOOLEAN : Recv(ok)
    \/ \E c \in live : CbConnected(c)
    \/ \E c \in live : CbDisconnected(c)
    \/ OnButton

SpecDispatch == InitDispatch /\ [][NextDispatch]_vars

\* ---- a command enqueued while handle_websocket holds no client ----
\* the Orchestrator has handled one press of button 0 on one Toggle binding
OrchPressed ==
    /\ bpc = "loop"
    /\ cur = None
    /\ last = [x \in 0..2 |-> FALSE]
    /\ button_ch = <<>>
    /\ reading = 0
    /\ samples = <<Some(0), None>>
    /\ sent = << <<0, 1>> >>
    /\ EvalInit
    /\ SntpInit
    /\ config_file = Some(<<ToggleB(0)>>)
    /\ remote = RemoteInit
    /\ opc = "select"
    /\ has_wifi = TRUE
    /\ has_time = FALSE
    /\ wall_clock = <<0, 0>>
    /\ last_time = <<>>
    /\ first_sample = TRUE
    /\ ha_config = <<ToggleB(0)>>
    /\ states = Insert(EmptyMap, idB, v1)
    /\ last_state = render_states(ha_config, states, EmptyMap).cache
    /\ haaction_id = HAActionIdBase + 1
    /\ drawn = <<>>
    /\ top_drawn = <<>>
    /\ screen = Paint(EmptyMap, render_states(ha_config, states, EmptyMap).draws)
    /\ step = [NoStep EXCEPT !.op = "button", !.enq = 1, !.button = 0]
    /\ dispatched = <<HAActionIdBase>>

\* the command of that press
QueuedCmd == SendJson(as_json(Service(idB, "turn_off"), HAActionIdBase))

\* the press was handled before handle_websocket created its first client
QueuedBeforeFirst ==
    /\ spc = "wait"
    /\ socket_client = 0
    /\ socket_q = <<QueuedCmd>>
    /\ ha_ch = <<>>
    /\ live = {}
    /\ opened = 0
    /\ sess = [c \in {} |-> NewSess]
    /\ wire = <<>>
    /\ received = <<>>
    /\ forwarded = <<>>

\* the press was handled after the first client had connected, sent its
\* authentication frame, reported Disconnected and been dropped
QueuedAfterTeardown ==
    /\ spc = "loop"
    /\ socket_client = 0
    /\ socket_q = <<QueuedCmd>>
    /\ ha_ch = <<>>
    /\ live = {}
    /\ opened = 1
    /\ sess = [c \in {1} |-> [NewSess EXCEPT !.conn = "down"]]
    /\ wire = << <<1, AuthMsg>> >>
    /\ received = <<[c |-> 1, ev |-> "Connected", f |-> Garbage, at |-> 0],
                    [c |-> 1, ev |-> "Disconnected", f |-> Garbage, at |-> 1]>>
    /\ forwarded = <<>>

InitQueued ==
    /\ OrchPressed
    /\ QueuedBeforeFirst \/ QueuedAfterTeardown

NextQueued ==
    \/ SessionStart
    \/ \E ok \in BOOLEAN : Connect(ok)
    \/ \E ok \in BOOLEAN : Recv(ok)
    \/ \E c \in live : CbConnected(c)
    \/ \E c \in live, f \in SessFrames : CbText(c, f)
    \/ \E c \in live : CbError(c)
    \/ \E c \in live : CbDisconnected(c)

SpecQueued == InitQueued /\ [][NextQueued]_vars

-----------------------------------------------------------------------------
(***************************************************************************)
(* Properties of the Button Decoder (SpecButtons)                          *)
(***************************************************************************)

\* poll i is the first sample of a maximal run of samples decoding to one button
RunStart(i) == samples[i].some /\ (i = 1 \/ samples[i - 1] # samples[i])

\* C1: over every sequence of readings the loop polls, the events sent are
\* exactly one per maximal run of samples decoding to the same button, each
\* sent at the first sample of its run (after 'no button' or after another
\* band alike) and carrying the run's button, in the order of the runs;
\* nothing is sent while a button stays held and nothing on release.
C1_OneEventPerRun ==
    /\ \A k \in DOMAIN sent :
          /\ sent[k][2] \in DOMAIN samples
          /\ RunStart(sent[k][2])
          /\ sent[k][1] = samples[sent[k][2]].v
    /\ \A i \in DOMAIN samples :
          Cardinality({k \in DOMAIN sent : sent[k][2] = i}) = (IF RunStart(i) THEN 1 ELSE 0)
    /\ \A j, k \in DOMAIN sent : j < k => sent[j][2] < sent[k][2]

\* a button held for two polls, then another band at once, then a release
C1_Witness ==
    /\ samples = <<Some(0), Some(0), Some(1), None>>
    /\ sent = << <<0, 1>>, <<1, 3>> >>

\* the reading lies strictly inside one of the three bands of lines 11-16
InBand(r) == r \in (701..999) \cup (1801..2199) \cup (2301..2599)

\* C2: a poll whose reading is 0, in a gap between bands (edges included) or
\* beyond the bands decodes to None, and no event is sent at that poll,
\* whatever ButtonState the poll found.
C2_NoButtonNoEvent ==
    (samples # <<>> /\ ~InBand(reading)) =>
        /\ samples[Len(samples)] = None
        /\ \A k \in DOMAIN sent : sent[k][2] # Len(samples)

\* a reading on a band's edge, polled while ButtonState held a pressed button
C2_Witness ==
    /\ Len(samples) >= 2
    /\ samples[Len(samples) - 1].some
    /\ reading \in {700, 1000, 1800, 2200, 2300, 2600}
    /\ samples[Len(samples)] = None

-----------------------------------------------------------------------------
(***************************************************************************)
(* Properties of the comparison and of the Mirror text (SpecEval)          *)
(***************************************************************************)

\* the strings of EvalValues that denote the comparison value in its declared
\* type: an integer literal of that value for Int, a decimal literal of that
\* value for Float, the very same string for Str
Denoting(cmp) ==
    CASE cmp = CmpInt(1) -> {v1, vPlus1, v01}
      [] cmp = CmpInt(0) -> {}
      [] cmp = CmpFloat(FNum(FALSE, 1, 0)) -> {v1, vPlus1, v01, v1p0, v1dot}
      [] cmp = CmpFloat(FNum(FALSE, 216, 1)) -> {v21p6}
      [] cmp.t = "Str" -> {cmp.s}

\* C5: a Toggle binding comparing against the integer 1 is on for the tracked
\* value "1" and off for "1.0", "on", the empty string and a missing entry;
\* for every comparison the tracked string is read in the comparison's declared
\* type before equality is tested, and a string that does not parse in that
\* type, or an absent value, is not equal.
C5_TypedComparison ==
    evalIn.fn = "is_on" =>
        LET val == Get(evalIn.state, evalIn.c.ha_id)
        IN /\ evalOut.on <=> (val.some /\ val.v \in Denoting(evalIn.c.cmp))
           /\ (evalIn.c.cmp = CmpInt(1) /\ val = Some(v1)) => evalOut.on
           /\ (evalIn.c.cmp = CmpInt(1)
                 /\ val \in {Some(v1p0), Some(vOn), Some(vEmpty), None}) => ~evalOut.on

\* the integer 1 was compared with the tracked value "1.0" and found off
C5_Witness ==
    /\ evalIn.fn = "is_on"
    /\ evalIn.c.cmp = CmpInt(1)
    /\ Get(evalIn.state, evalIn.c.ha_id) = Some(v1p0)
    /\ ~evalOut.on

\* the nearest integer of the strings of EvalValues that are numbers, as a
\* decimal numeral; the others are not numbers
NearestInteger(v) ==
    CASE v \in {v1, vPlus1, v01, v1p0, v1dot, vDot5} -> <<"1">>
      [] v \in {v21p6, v21p5} -> <<"2", "2">>
      [] v = v21p4 -> <<"2", "1">>
      [] v = vM21p5 -> <<"-", "2", "2">>
      [] v = vM0p4 -> <<"0">>
      [] OTHER -> <<>>

\* C6: a Mirror binding with the rounding flag renders the template followed
\* by the nearest integer of the tracked value when the value is a number, and
\* exactly the template when it is not.
C6_RoundedSuffix ==
    (evalIn.fn = "render_states" /\ evalIn.c.make_int) =>
        /\ Len(evalOut.draws) = 1
        /\ evalOut.draws[1].text =
              evalIn.c.text \o NearestInteger(evalIn.state[evalIn.c.ha_id])

\* the tracked value "-0.4" was rendered with the suffix "-0"
C6_Witness ==
    /\ evalIn.fn = "render_states"
    /\ evalIn.c.make_int
    /\ evalIn.c.text = tTemp
    /\ evalIn.state[evalIn.c.ha_id] = vM0p4
    /\ evalOut.draws[1].text = tTemp \o <<"-", "0">>

-----------------------------------------------------------------------------
(***************************************************************************)
(* Properties of the Orchestrator (Spec, SpecDispatch)                     *)
(***************************************************************************)

\* C3: when render_states runs again with no State Store change since its
\* previous run (a remote event on a tracked entity that carries the value the
\* store already holds), it sends zero draw instructions, for every binding
\* table, tables in which two bindings share a render key included.
C3_SecondRunSilent ==
    (step.op = "ha" /\ step.rendered /\ ~step.storeChanged) => drawn = <<>>

\* a Mirror and a Toggle binding share the render key of entity a: the event
\* left the store as it was, and both bindings were drawn again
C3_Witness ==
    /\ ha_config = CfgShared
    /\ step.op = "ha" /\ step.rendered /\ ~step.storeChanged /\ ~step.boot
    /\ Len(drawn) = 2

\* C4: a decoded remote event whose entity is not a key of the State Store
\* leaves the State Store and the Render Cache unchanged and sends no draw
\* instruction; once the bootstrap has run, the key set of the State Store is
\* the set of identities the binding table names, whatever remote events and
\* button events were handled since: it never grows.
C4_UntrackedIgnored ==
    /\ (step.op = "ha" /\ ~step.tracked) =>
          (~step.storeChanged /\ ~step.cacheChanged /\ drawn = <<>>)
    /\ first_sample => DOMAIN states = {ha_id(ha_config[i]) : i \in DOMAIN ha_config}

\* after the bootstrap, an event that names the unbound entity z and carries
\* a state was handled, following a button event
C4_Witness ==
    /\ step.op = "ha" /\ ~step.boot /\ first_sample
    /\ step.entity = Some(idZ)
    /\ states # EmptyMap
    /\ dispatched # <<>>

\* C10: the request ids as_json hands out are 1024, 1025, 1026, ... in
\* dispatch order, one counter step per serialized action, across button
\* presses and session reconnects alike: strictly increasing, never reused,
\* never reset.
C10_RequestIds ==
    /\ \A i \in DOMAIN dispatched : dispatched[i] = HAActionIdBase + (i - 1)
    /\ haaction_id = HAActionIdBase + Len(dispatched)
    /\ \A i, j \in DOMAIN dispatched : i < j => dispatched[i] < dispatched[j]

\* two presses dispatched four actions, and the second press's first action
\* went out on a later session than the first press's
C10_Witness ==
    /\ Len(dispatched) = 4
    /\ \E i, j \in DOMAIN wire :
          /\ i < j
          /\ wire[i][1] = 1 /\ wire[i][2].id = HAActionIdBase
          /\ wire[j][1] = 2 /\ wire[j][2].id = HAActionIdBase + 2

-----------------------------------------------------------------------------
(***************************************************************************)
(* Properties of the Session Manager (SpecSession)                         *)
(***************************************************************************)

\* the text frames received so far that parse and are not auth_ok, in order
RECURSIVE Forwardable(_)
Forwardable(h) ==
    IF h = <<>> THEN <<>>
    ELSE Forwardable(SubSeq(h, 1, Len(h) - 1))
         \o (IF h[Len(h)].ev = "Text" /\ h[Len(h)].f.ok
                /\ h[Len(h)].f.json # fAuthOk.json
             THEN <<h[Len(h)].f.json>> ELSE <<>>)

AuthOkOn(c) == {k \in DOMAIN received : received[k].ev = "Text" /\ received[k].c = c
                                         /\ received[k].f = fAuthOk}

SubscribesOn(c) == {i \in DOMAIN wire : wire[i] = <<c, SubscribeMsg>>}

\* the remote service follows the handshake: a session receives auth_ok only
\* after its authentication frame was transmitted, and at most once
HandshakeInOrder ==
    /\ \A k \in DOMAIN received :
          (received[k].ev = "Text" /\ received[k].f = fAuthOk) =>
              \E i \in 1..received[k].at : wire[i] = <<received[k].c, AuthMsg>>
    /\ \A c \in 1..opened : Cardinality(AuthOkOn(c)) <= 1

\* C7: with sessions that receive auth_ok after having sent their
\* authentication frame, a subscribe request (id 42) goes out only on a
\* session that received auth_ok, once per auth_ok; auth_ok is never
\* forwarded; the parseable frames that are not auth_ok are forwarded
\* unmodified, once each, in arrival order.
C7_SubscribeOnAuthOk ==
  HandshakeInOrder =>
    /\ \A c \in 1..opened : Cardinality(SubscribesOn(c)) <= Cardinality(AuthOkOn(c))
    /\ \A i \in DOMAIN forwarded : forwarded[i] # fAuthOk.json
    /\ forwarded = Forwardable(received)

\* the subscribe request that answers the first session's auth_ok was
\* transmitted on the second session, which received no auth_ok
C7_Witness ==
    /\ HandshakeInOrder
    /\ AuthOkOn(1) # {}
    /\ SubscribesOn(1) = {}
    /\ AuthOkOn(2) = {}
    /\ SubscribesOn(2) # {}

\* session c had its subscribe request transmitted among the first n payloads
SubscribedAt(c, n) == \E i \in SubscribesOn(c) : i <= n

\* C8: once the socket has reported a transport error on a Subscribed session,
\* no further payload is transmitted on that session: it is torn down first.
C8_ErrorTearsDownFirst ==
  HandshakeInOrder =>
    \A k \in DOMAIN received :
        (received[k].ev = "Error" /\ SubscribedAt(received[k].c, received[k].at)) =>
            \A i \in DOMAIN wire : i > received[k].at => wire[i][1] # received[k].c

\* a command dispatched before the error was transmitted on the Subscribed
\* session after the socket had reported the error
C8_Witness ==
    \E k \in DOMAIN received :
        /\ HandshakeInOrder
        /\ received[k].ev = "Error"
        /\ SubscribedAt(received[k].c, received[k].at)
        /\ \E i \in DOMAIN wire :
              /\ i > received[k].at
              /\ wire[i][1] = received[k].c
              /\ wire[i][2].type = "call_service"

\* C9: at most one client object is live, and it is the one socket_client
\* holds: a client is created only when socket_client is None, and a teardown
\* (Reconnect or a failed send) drops the client before the next is created.
C9_OneSessionLive ==
    /\ Cardinality(live) <= 1
    /\ live = (IF socket_client = 0 THEN {} ELSE {socket_client})

\* the second client is live after the first was torn down
C9_Witness ==
    /\ opened = 2
    /\ live = {2}
    /\ socket_client = 2

-----------------------------------------------------------------------------
(***************************************************************************)
(* Properties of the command channel (SpecQueued, SpecSession)             *)
(***************************************************************************)

\* C11: a payload command enqueued while no session is live is dropped: the
\* command of the press handled while handle_websocket held no client is
\* never transmitted, on no session.
C11_DroppedWhileDown ==
    \A i \in DOMAIN wire : wire[i][2] # QueuedCmd.json

\* the command enqueued while no session was live went out on the session
\* opened afterwards, ahead of that session's authentication frame
C11_Witness ==
    /\ opened >= 1
    /\ socket_client = opened
    /\ wire # <<>>
    /\ wire[Len(wire)] = <<opened, QueuedCmd.json>>
    /\ \A i \in DOMAIN wire : wire[i] # <<opened, AuthMsg>>


\* the events the socket reported for client c that make socket_to_me
\* enqueue a Reconnect
TeardownEventsOn(c) ==
    {k \in DOMAIN received : received[k].c = c
                             /\ received[k].ev \in {"Error", "Disconnected"}}

\* C12: the Reconnect signals enqueued before a session opens are consumed by
\* the time it opens: while the live session has reported neither an error
\* nor Disconnected, the command channel holds no Reconnect.
C12_ReconnectsCoalesced ==
    (socket_client # 0 /\ TeardownEventsOn(socket_client) = {}) =>
        \A i \in DOMAIN socket_q : socket_q[i] # Reconnect

\* the second session was dropped although the socket reported nothing on it
\* and every payload command enqueued so far was transmitted: what dropped
\* it is a Reconnect left over from the first session
C12_Witness ==
    /\ opened = 2
    /\ socket_client = 0
    /\ socket_q = <<>>
    /\ dispatched = <<>>
    /\ TeardownEventsOn(1) # {}
    /\ \A k \in DOMAIN received : received[k].c = 1
    /\ Len(wire) = Cardinality({k \in DOMAIN received :
                                   \/ received[k].ev = "Connected"
                                   \/ /\ received[k].ev = "Text"
                                      /\ received[k].f = fAuthOk})

-----------------------------------------------------------------------------
(***************************************************************************)
(* Properties of the Orchestrator's arms (Spec)                            *)
(***************************************************************************)

\* C13: handling a button event changes neither the State Store nor the
\* Render Cache and sends no draw instruction; once the bootstrap has run, a
\* stored value changes only in a step that applies a decoded remote event for
\* that entity, and the text shown at a Toggle's position changes only in a
\* step that applies a decoded remote event for a tracked entity.
C13_NoOptimisticUpdate ==
    [][first_sample =>
          /\ (button_ch' # button_ch) =>
                (states' = states /\ last_state' = last_state
                   /\ drawn' = <<>> /\ screen' = screen)
          /\ \A k \in DOMAIN states :
                (k \in DOMAIN states' /\ states'[k] # states[k]) =>
                    (step'.op = "ha" /\ step'.entity = Some(k))
          /\ \A i \in DOMAIN ha_config :
                (ha_config[i].kind = "Button"
                   /\ Get(screen', ButtonPos(ha_config[i].button))
                        # Get(screen, ButtonPos(ha_config[i].button))) =>
                    (step'.op = "ha" /\ step'.tracked /\ ha_ch' = Tail(ha_ch))
      ]_vars

\* a press of the Toggle on entity b dispatched its command while the store
\* still holds "1" and the panel still shows the on text
C13_Witness ==
    /\ step.op = "button" /\ step.enq = 1 /\ ~step.boot
    /\ ha_config = CfgMixed
    /\ Get(states, idB) = Some(v1)
    /\ Get(screen, ButtonPos(0)) = Some(tOn)

-----------------------------------------------------------------------------
(***************************************************************************)
(* Properties of the Session Manager's error paths (SpecSession)           *)
(***************************************************************************)

\* the bindings of `cfg` on identity k whose seed query was answered
Answered(cfg, seeds, k) ==
    {j \in DOMAIN cfg : ha_id(cfg[j]) = k /\ seeds[j].ok}

\* the state right after the bootstrap: one query was made per binding; an
\* identity none of whose queries was answered is in the store with the empty
\* value, every other identity holds the state the service reported, whatever
\* failed before it; the cache and the instructions are those of one
\* evaluation of every binding against that store
Seeded ==
    /\ first_sample
    /\ DOMAIN step.seeds = DOMAIN ha_config
    /\ \A i \in DOMAIN ha_config :
          LET k == ha_id(ha_config[i])
          IN Get(states, k) =
                Some(IF Answered(ha_config, step.seeds, k) = {} THEN <<>>
                     ELSE remote[k])
    /\ top_drawn = render_states(ha_config, states, EmptyMap).draws
    /\ last_state = render_states(ha_config, states, EmptyMap).cache

\* C15: a failed seed query leaves its identity in the store with the empty
\* value and does not abort the bootstrap: every other identity is still
\* queried and stored, the bootstrap is marked complete and never runs again,
\* and one evaluation of every binding follows it.
C15_SeedFailureTolerated ==
    /\ [](step.boot => Seeded)
    /\ [][first_sample => (first_sample' /\ (step'.boot => step' = step))]_vars

\* the first binding's query failed and a later binding's query was answered:
\* the first identity is empty, the later one holds the reported state
C15_Witness ==
    /\ step.boot
    /\ \E i, j \in DOMAIN ha_config :
          /\ i < j
          /\ ~step.seeds[i].ok /\ step.seeds[j].ok
          /\ ha_id(ha_config[i]) # ha_id(ha_config[j])
          /\ Get(states, ha_id(ha_config[i])) = Some(<<>>)
          /\ Get(states, ha_id(ha_config[j])) = Some(remote[ha_id(ha_config[j])])
          /\ top_drawn # <<>>

\* C16: when the configuration is missing or malformed the table is exactly
\* one Display binding announcing the failure; with that table no button event
\* enqueues a command and no remote event sends a draw instruction.
C16_FailedConfig ==
    (config_file = None /\ first_sample) =>
        /\ Len(ha_config) = 1
        /\ ha_config[1].kind = "Text"
        /\ ha_config[1].text = tFailed
        /\ dispatched = <<>> /\ haaction_id = HAActionIdBase
        /\ \A i \in DOMAIN socket_q : socket_q[i].cmd # "SendJson"
        /\ step.op = "button" => step.enq = 0
        /\ step.op = "ha" => drawn = <<>>

\* with the failure table, both presses were taken and a remote event for the
\* identity the store tracks (the failure text) was applied without a draw
C16_Witness ==
    /\ config_file = None /\ first_sample
    /\ sent # <<>> /\ button_ch = <<>>
    /\ step.op = "ha" /\ step.tracked /\ step.storeChanged /\ ~step.boot
    /\ Get(states, tFailed) = Some(vOn)
    /\ Get(screen, LinePos(0)) = Some(tFailed)
    /\ drawn = <<>>

\* the Toggle bindings of the table on button b
TogglesOn(b) ==
    {i \in DOMAIN ha_config : ha_config[i].kind = "Button" /\ ha_config[i].button = b}

\* the action designated for binding i in the current state of the store
ActionFor(i) ==
    IF is_on(ha_config[i], states) THEN ha_config[i].action_off
    ELSE ha_config[i].action_on

\* C19: on a button event with index b, if a Toggle binding has button
\* identity b exactly one structured-send command is enqueued for the press,
\* carrying action_off when the binding is on and action_on otherwise; if no
\* Toggle binding has button identity b (the table is still empty before the
\* bootstrap) nothing is enqueued.
C19_OneCommandPerPress ==
    step.op = "button" =>
        IF step.boot \/ TogglesOn(step.button) = {}
        THEN step.enq = 0
        ELSE /\ step.enq = 1
             /\ \E i \in TogglesOn(step.button) :
                   socket_q[Len(socket_q)] =
                       SendJson(as_json(ActionFor(i), haaction_id - 1))

\* one press of a button that two Toggle bindings share enqueued two
\* commands, one per binding
C19_Witness ==
    /\ step.op = "button" /\ ~step.boot
    /\ Cardinality(TogglesOn(step.button)) = 2
    /\ step.enq = 2
    /\ Len(socket_q) >= 2
    /\ \E i, j \in TogglesOn(step.button) :
          /\ i < j
          /\ socket_q[Len(socket_q) - 1] = SendJson(as_json(ActionFor(i), haaction_id - 2))
          /\ socket_q[Len(socket_q)] = SendJson(as_json(ActionFor(j), haaction_id - 1))

\* C20: a decoded remote event for a tracked identity whose new value equals
\* the stored one is 'not changed': the bindings are not re-evaluated for it
\* and no draw instruction is sent; they are re-evaluated only when the stored
\* value actually changed.
C20_UnchangedNotRerun ==
    step.op = "ha" =>
        /\ step.rendered => step.storeChanged
        /\ (step.tracked /\ ~step.storeChanged) => drawn = <<>>

\* an event repeated the value the store already held for a tracked identity
\* and the bindings were evaluated again
C20_Witness ==
    /\ step.op = "ha" /\ ~step.boot
    /\ step.tracked /\ ~step.storeChanged
    /\ step.entity = Some(idA) /\ Get(states, idA) = Some(vOn)
    /\ step.rendered
    /\ ha_config = CfgMixed

\* the latest event the socket reported is a text frame that does not parse
UnparseableArrived(rcv) ==
    /\ rcv # <<>>
    /\ rcv[Len(rcv)].ev = "Text"
    /\ ~rcv[Len(rcv)].f.ok

\* C14: a text frame that cannot be parsed is silently dropped: the step in
\* which it arrives forwards nothing, enqueues no command (no Reconnect), and
\* leaves the session live, held by the manager and in the state it was in.
C14_UnparseableDropped ==
    [][(Len(received') = Len(received) + 1 /\ UnparseableArrived(received')) =>
          /\ socket_q' = socket_q
          /\ ha_ch' = ha_ch /\ forwarded' = forwarded
          /\ wire' = wire
          /\ socket_client' = socket_client /\ live' = live
          /\ received'[Len(received')].c \in live'
          /\ sess' = sess
      ]_vars

\* an unparseable frame arrived on the session the manager holds, and a
\* payload was transmitted on that session afterwards
C14_Witness ==
    \E k \in DOMAIN received :
        /\ received[k].ev = "Text" /\ ~received[k].f.ok
        /\ received[k].c = socket_client
        /\ received[k].c \in live
        /\ \E i \in DOMAIN wire : i > received[k].at /\ wire[i][1] = received[k].c


\* transmission i is the first one on its session
FirstOnSession(i) == \A j \in 1..(i - 1) : wire[j][1] # wire[i][1]

\* C17: on every newly opened session the authentication frame is the first
\* frame transmitted; no other payload goes out on the session before it,
\* whatever the command channel holds when the session opens.
C17_AuthFirst ==
    \A i \in DOMAIN wire : FirstOnSession(i) => wire[i][2] = AuthMsg

\* the first payload on a session, transmitted after the socket reported
\* Connected for it, is a call_service command
C17_Witness ==
    \E i \in DOMAIN wire :
        /\ FirstOnSession(i)
        /\ wire[i][2].type = "call_service"
        /\ \E k \in DOMAIN received :
              /\ received[k].c = wire[i][1]
              /\ received[k].ev = "Connected"
              /\ received[k].at < i


\* C18: a failed transmit tears the session down exactly as a transport error
\* does: the step that takes a command off the channel without transmitting
\* it (a Reconnect, or a payload whose send failed) leaves the manager with no
\* client and no live session, so that the next iteration attempts a connect;
\* the command is gone from the channel and nothing is put back.
C18_FailedSendTearsDown ==
    [][(Len(socket_q') < Len(socket_q) /\ wire' = wire) =>
          /\ socket_q' = Tail(socket_q)
          /\ socket_client' = 0 /\ live' = {}
          /\ ConnectGuard' /\ spc' = "loop"
          /\ sess' = sess /\ opened' = opened
      ]_vars

\* the first session reported Connected and nothing else, its auth frame was
\* taken off the channel and never transmitted, and the manager holds no
\* client: the send failed and the session is gone
C18_Witness ==
    /\ opened = 1 /\ socket_client = 0 /\ live = {}
    /\ TeardownEventsOn(1) = {}
    /\ \E k \in DOMAIN received : received[k].ev = "Connected"
    /\ dispatched = <<>>
    /\ socket_q = <<>> /\ wire = <<>>

-----------------------------------------------------------------------------
(***************************************************************************)
(* Properties of the clock line (SpecClock)                                *)
(***************************************************************************)

\* the instructions of d that paint the clock position
ClockDrawsIn(d) == {i \in DOMAIN d : d[i].pos = ClockPos}

\* the step is one of the Orchestrator's
OrchStepped ==
    \/ opc' # opc \/ step' # step
    \/ top_drawn' # top_drawn \/ last_time' # last_time
    \/ Len(ha_ch') < Len(ha_ch)

\* C21: a clock draw instruction is sent only when the time-synced flag is
\* set and the formatted clock differs from the last one sent, so two
\* consecutive clock draws never carry the same text; an iteration that ends
\* by timeout with an unchanged clock sends no draw instruction and changes
\* neither the State Store nor the Render Cache.
C21_ClockOnlyOnChange ==
    [][OrchStepped =>
          /\ ClockDrawsIn(drawn') = {}
          /\ Cardinality(ClockDrawsIn(top_drawn')) <= 1
          /\ \A i \in ClockDrawsIn(top_drawn') :
                /\ has_time
                /\ top_drawn'[i].text = FormatTime(wall_clock)
                /\ Get(screen, ClockPos) # Some(top_drawn'[i].text)
                /\ Get(screen', ClockPos) = Some(top_drawn'[i].text)
          /\ (step'.op = "timeout" /\ first_sample /\ ClockDrawsIn(top_drawn') = {}) =>
                /\ top_drawn' = <<>> /\ drawn' = <<>>
                /\ states' = states /\ last_state' = last_state
                /\ screen' = screen
      ]_vars

\* after the clock line showed another minute, a timeout iteration at ten
\* o'clock sent the one instruction that paints "10:00"
C21_Witness ==
    /\ step.op = "timeout" /\ first_sample /\ has_time
    /\ wall_clock = <<10, 0>>
    /\ Len(top_drawn) = 1 /\ ClockDrawsIn(top_drawn) = {1}
    /\ top_drawn[1].text = <<" ", " ", " ", " ", " ", " ", " ", "1", "0", ":", "0", "0">>
    /\ drawn = <<>>

-----------------------------------------------------------------------------
(***************************************************************************)
(* Properties of the bounded channels (SpecFull)                           *)
(***************************************************************************)

\* the step delivered a text frame that parses and is not the acknowledgment
Forwarding ==
    /\ Len(received') = Len(received) + 1
    /\ received'[Len(received')].ev = "Text"
    /\ received'[Len(received')].f.ok
    /\ ~IsAuthOk(received'[Len(received')].f.json)

\* C22: the button-event channel never holds more than 5 entries and the
\* decoded-event channel never more than 60; a frame is forwarded only when
\* the decoded-event channel has room, and then it is appended behind what
\* waits there; entries leave either channel only from the front, taken by the
\* Orchestrator: nothing is dropped or reordered.
C22_BoundedNoLoss ==
    /\ [](Len(button_ch) <= ButtonCap /\ Len(ha_ch) <= HaCap)
    /\ [][/\ Forwarding =>
                /\ Len(ha_ch) < HaCap
                /\ ha_ch' = Append(ha_ch, received'[Len(received')].f.json)
          /\ (ha_ch' # ha_ch /\ ~Forwarding) =>
                /\ ha_ch # <<>>
                /\ ha_ch' = Tail(ha_ch)
                /\ step'.op = "ha"
                /\ step'.entity = traverse(Head(ha_ch), EntityPath)
          /\ (button_ch' # button_ch) =>
                \/ /\ button_ch # <<>>
                   /\ button_ch' = Tail(button_ch)
                   /\ step'.op = "button" /\ step'.button = Head(button_ch)
                \/ /\ Len(sent') = Len(sent) + 1
                   /\ Len(button_ch) < ButtonCap
                   /\ button_ch' = Append(button_ch, sent'[Len(sent')][1])
         ]_vars

\* both channels are full; the decoded-event channel was full before, the
\* Orchestrator took one event and the frame that waited was forwarded
C22_Witness ==
    /\ Len(button_ch) = ButtonCap
    /\ Len(ha_ch) = HaCap
    /\ Len(forwarded) = HaCap + 1
    /\ ha_ch[HaCap] = fEvent(idZ, v1).json
    /\ ha_ch[HaCap - 1] = fEvent(idZ, v1).json

-----------------------------------------------------------------------------
(***************************************************************************)
(* Properties of the time-sync loop (SpecSntp)                             *)
(***************************************************************************)

\* C23: if time synchronization never completes, the device is restarted
\* after a bounded number of failed polls, whatever status the polls report;
\* once synchronization has completed the time-synced flag stays set and no
\* restart is triggered.
C23_RestartOrSync ==
    /\ <>(has_time \/ restarted)
    /\ [](has_time => ~restarted)
    /\ [][has_time => has_time']_vars

\* the restart the loop does make: the poll that reported Reset for the
\* 101st time, with the flag never set
C23_Witness ==
    /\ restarted /\ ~has_time /\ not_sync
    /\ sntp_reset_cnt = SntpResetLimit + 1

-----------------------------------------------------------------------------
(***************************************************************************)
(* Properties of the session states (SpecSession)                          *)
(***************************************************************************)

\* C24: inbound frames are forwarded to the decoded-event channel only while
\* the session is Subscribed: a text frame received on a session before that
\* session's auth_ok is not forwarded.
C24_ForwardOnlySubscribed ==
    [][(Forwarding /\ forwarded' # forwarded) =>
          AuthOkOn(received'[Len(received')].c) # {}
      ]_vars

\* the auth_required frame that opens the handshake, received on a session
\* with no auth_ok so far, is in the decoded-event channel
C24_Witness ==
    /\ received # <<>>
    /\ received[Len(received)].ev = "Text"
    /\ received[Len(received)].f = fAuthRequired
    /\ AuthOkOn(received[Len(received)].c) = {}
    /\ forwarded = <<fAuthRequired.json>>
    /\ ha_ch = <<fAuthRequired.json>>


\* C25: each transport failure of a session causes at most one teardown: a
\* Reconnect raised by a session tears down only that session, never one
\* opened after it, so the session a Reconnect tears down is one that
\* reported an error or a disconnect itself.
C25_TeardownOwnSession ==
    [][(socket_client # 0 /\ socket_q # <<>> /\ Head(socket_q) = Reconnect
          /\ socket_q' = Tail(socket_q) /\ socket_client' = 0) =>
          TeardownEventsOn(socket_client) # {}
      ]_vars

\* the first session reported an error and then a disconnect; its auth frame
\* was sent, no other command was ever enqueued, and both the first and the
\* second session are gone: each Reconnect tore down one of them
C25_Witness ==
    /\ opened = 2 /\ socket_client = 0 /\ live = {}
    /\ socket_q = <<>> /\ dispatched = <<>>
    /\ wire = << <<1, AuthMsg>> >>
    /\ Len(received) = 3
    /\ \A k \in DOMAIN received : received[k].c = 1
    /\ \E k \in DOMAIN received : received[k].ev = "Error"
    /\ \E k \in DOMAIN received : received[k].ev = "Disconnected"

\* ---- the remote service, the Session Manager and the Orchestrator from
\* power-up: network-ready, handshake, seed fetch and state changes interleave ----

\* the service streams state_changed events to a session once that session
\* authenticated and its subscribe_events request was transmitted, wifi.rs:86-97
ServiceSubscribed(c) ==
    /\ c \in live
    /\ sess[c].conn = "connected"
    /\ AuthOkOn(c) # {}
    /\ SubscribesOn(c) # {}

\* the service answers the authentication frame of wifi.rs:66-81 with auth_ok
AuthReply(c) ==
    /\ \E i \in DOMAIN wire : wire[i] = <<c, AuthMsg>>
    /\ AuthOkOn(c) = {}
    /\ CbText(c, fAuthOk)

\* an entity of the service takes a new value; every Subscribed session is sent
\* the state_changed event, which socket_to_me forwards (wifi.rs:82-102);
\* get_state of util.rs:60-88 reads the value from then on
RemoteChange(k, v) ==
    /\ k \in DOMAIN remote
    /\ v # remote[k]
    /\ remote' = Insert(remote, k, v)
    /\ LET subs == {c \in live : ServiceSubscribed(c)}
       IN  IF subs = {}
           THEN UNCHANGED sessVars
           ELSE \E c \in subs : TextFrame(c, fEvent(k, v))
    /\ UNCHANGED <<opc, has_wifi, has_time, wall_clock, last_time, config_file,
                   first_sample, ha_config, states, last_state, haaction_id, drawn,
                   top_drawn, screen, step, dispatched>>
    /\ UNCHANGED <<sntpVars, btnVars, evalVars>>

\* two Display bindings with the same static text on different lines, and a
\* Toggle binding
CfgTwin == <<Text(0, tHi, 0), Text(1, tHi, 0), ToggleB(0)>>

InitSeed ==
    /\ BtnPressed(<<>>) /\ EvalInit /\ SntpInit /\ OrchInit /\ SessInit
    /\ config_file \in {Some(<<ToggleB(0)>>), Some(CfgTwin)}
    /\ remote = RemoteInit

NextSeed ==
    \/ WifiUp
    \/ OrchStart
    \/ OnTimeout
    \/ OnHaEvent
    \/ SessionStart
    \/ Connect(TRUE)
    \/ Recv(TRUE)
    \/ \E c \in live : CbConnected(c)
    \/ \E c \in live : AuthReply(c)
    \/ \E v \in {v1, vOn} : RemoteChange(idB, v)

SpecSeed == InitSeed /\ [][NextSeed]_vars

\* C26: once the Orchestrator has bootstrapped, a session is Subscribed and the
\* decoded-event channel is drained, the State Store holds, for every tracked
\* entity with a stored value, the value the remote service has for it now.
C26_StoreMatchesRemote ==
    (first_sample /\ ha_ch = <<>> /\ (\E c \in live : ServiceSubscribed(c))) =>
        \A k \in DOMAIN states :
            (k \in DOMAIN remote /\ states[k] # <<>>) => states[k] = remote[k]

\* the entity changed between its seed fetch and the subscription: no event was
\* ever forwarded, and the store keeps the seeded value
C26_Witness ==
    /\ first_sample
    /\ \E c \in live : ServiceSubscribed(c)
    /\ ha_ch = <<>>
    /\ forwarded = <<>>
    /\ step.op = "timeout"
    /\ idB \in DOMAIN states
    /\ states[idB] = v1
    /\ remote[idB] = vOn

\* C27: after the bootstrap, for every binding with a desired text, the latest
\* draw instruction sent for the binding's screen position carries that text.
C27_DisplayReflectsStore ==
    first_sample =>
        \A i \in DOMAIN ha_config :
            Desired(ha_config[i], states).some =>
                Get(screen, BindingPos(ha_config[i])) = Desired(ha_config[i], states)

\* the second of two Display bindings with the same text was never drawn
C27_Witness ==
    /\ first_sample
    /\ ha_config = CfgTwin
    /\ step.boot
    /\ Len(top_drawn) = 2
    /\ Get(last_state, tHi) = Some(tHi)
    /\ Get(screen, LinePos(0)) = Some(tHi)
    /\ Get(screen, LinePos(1)) = None

\* C28: under fair scheduling of the Orchestrator a full button-event channel
\* and a full decoded-event channel each get room again, so a send blocked on
\* either can complete: the Orchestrator is never stuck in a send of its own.
C28_NoDeadlock ==
    /\ (Len(button_ch) = ButtonCap) ~> (Len(button_ch) < ButtonCap)
    /\ (Len(ha_ch) = HaCap) ~> (Len(ha_ch) < HaCap)

\* both channels were full, the Orchestrator drained them while commands it
\* sent wait unreceived, a poll's send went through and the default arm was taken
C28_Witness ==
    /\ step.op = "timeout"
    /\ button_ch = <<>>
    /\ ha_ch = <<>>
    /\ Len(socket_q) > ButtonCap
    /\ Len(sent) > 0
    /\ Len(forwarded) > HaCap

====
